---------------------------- MODULE Spec2Model ----------------------------
(***************************************************************************)
(* A model of grandjury/api_client.py: the GrandJuryClient configuration,  *)
(* the input normalizer (_parse_input and its converters), the pure-text   *)
(* CSV parser, the request dispatcher (_make_request) and the public       *)
(* operations built from them.                                             *)
(*                                                                         *)
(* Text is modelled as a sequence of lexemes (a lexeme is a run of         *)
(* characters that the code's string tests never split), Python values as  *)
(* tagged records, and a raised exception as an outcome of kind "raise".   *)
(***************************************************************************)
EXTENDS Integers, Sequences, FiniteSets, TLC

VARIABLES
    flags,      \* HAS_PANDAS, HAS_POLARS, HAS_PYARROW, HAS_MSGSPEC, set at import
    csvFile,    \* the CSV file handed to _parse_csv
    csvOut,     \* the outcome of _parse_csv on it, or NotRun
    normIn,     \* the object handed to _parse_input
    normOut,    \* the branch _parse_input took and its outcome, or NotNormalized
    clients,    \* the configuration of each GrandJuryClient instance, or NoClient
    last        \* the latest call on a client: its arguments, the requests it
                \* sent, the response it got and its outcome

vars == <<flags, csvFile, csvOut, normIn, normOut, clients, last>>

(***************************************************************************)
(* Bounds of the model.                                                    *)
(***************************************************************************)
MaxCellLen == 3
MaxRows == 2
MaxListLen == 2
MaxUrlLen == 6

(***************************************************************************)
(* The outcome of a call: a returned value or a raised exception, which is *)
(* its type and, for the dispatcher's error, the two parts of its message. *)
(***************************************************************************)
Exc(type) == [type |-> type, status |-> 0, text |-> ""]
NotRun == [kind |-> "notrun", err |-> Exc(""), value |-> <<>>]
Return(v) == [kind |-> "return", err |-> Exc(""), value |-> v]
Raise(type) == [kind |-> "raise", err |-> Exc(type), value |-> <<>>]

RECURSIVE SeqsUpTo(_, _)
SeqsUpTo(S, n) ==
    IF n = 0 THEN {<<>>}
    ELSE LET shorter == SeqsUpTo(S, n - 1)
         IN  shorter \cup {Append(s, x) : s \in {t \in shorter : Len(t) = n - 1}, x \in S}

Range(s) == {s[i] : i \in DOMAIN s}

(***************************************************************************)
(* Cell text.  The lexemes: the words the coercion tests for in several    *)
(* letter cases, two digits, the sign, the decimal point, the exponent     *)
(* letter and a letter that is none of these.                              *)
(***************************************************************************)
Lexemes == {"True", "true", "FALSE", "None", "1", "2", "-", ".", "e", "x"}
Digits == {"1", "2"}

\* str.lower(), lexeme by lexeme
LowerLexeme(c) ==
    CASE c = "True" -> "true"
      [] c = "FALSE" -> "false"
      [] c = "None" -> "none"
      [] OTHER -> c

Lower(v) == [i \in DOMAIN v |-> LowerLexeme(v[i])]

\* '.' in v
HasDot(v) == \E i \in DOMAIN v : v[i] = "."

IsDigits(s) == \A i \in DOMAIN s : s[i] \in Digits

DigitValue(c) == IF c = "1" THEN 1 ELSE 2

RECURSIVE DigitsValue(_)
DigitsValue(s) ==
    IF s = <<>> THEN 0
    ELSE 10 * DigitsValue(SubSeq(s, 1, Len(s) - 1)) + DigitValue(s[Len(s)])

Unsigned(v) == IF v # <<>> /\ v[1] = "-" THEN Tail(v) ELSE v
Sign(v) == IF v # <<>> /\ v[1] = "-" THEN -1 ELSE 1

\* int(v) succeeds: an optional sign and one or more digits
IntOk(v) == Unsigned(v) # <<>> /\ IsDigits(Unsigned(v))

IntValue(v) == Sign(v) * DigitsValue(Unsigned(v))

\* the mantissa of a float literal: digits, with at most one decimal point and
\* a digit on one side of it at least
MantissaOk(s) ==
    \/ s # <<>> /\ IsDigits(s)
    \/ \E k \in DOMAIN s :
         /\ s[k] = "."
         /\ Len(s) > 1
         /\ IsDigits(SubSeq(s, 1, k - 1))
         /\ IsDigits(SubSeq(s, k + 1, Len(s)))

\* the exponent part of a float literal: absent, or e, an optional sign, digits
ExponentOk(s) ==
    \/ s = <<>>
    \/ s[1] = "e" /\ Unsigned(Tail(s)) # <<>> /\ IsDigits(Unsigned(Tail(s)))

\* where the mantissa of u ends: the first e, if any
MantissaEnd(u) ==
    IF \E i \in DOMAIN u : u[i] = "e"
    THEN (CHOOSE i \in DOMAIN u : u[i] = "e" /\ \A j \in 1..(i - 1) : u[j] # "e") - 1
    ELSE Len(u)

\* float(v) succeeds
FloatOk(v) ==
    LET u == Unsigned(v)
        k == MantissaEnd(u)
    IN  MantissaOk(SubSeq(u, 1, k)) /\ ExponentOk(SubSeq(u, k + 1, Len(u)))

\* float(v) as a decimal: n * 10^e
FloatValue(v) ==
    LET u == Unsigned(v)
        k == MantissaEnd(u)
        m == SubSeq(u, 1, k)
        x == SubSeq(u, k + 1, Len(u))
        dot == IF HasDot(m) THEN CHOOSE i \in DOMAIN m : m[i] = "." ELSE Len(m) + 1
        digits == SubSeq(m, 1, dot - 1) \o SubSeq(m, dot + 1, Len(m))
        frac == IF HasDot(m) THEN Len(m) - dot ELSE 0
        exp == IF x = <<>> THEN 0 ELSE IntValue(Tail(x))
    IN  [n |-> Sign(v) * DigitsValue(digits), e |-> exp - frac]

(***************************************************************************)
(* Python values of a Record's fields.                                     *)
(***************************************************************************)
PyBool(b) == [t |-> "bool", n |-> IF b THEN 1 ELSE 0, e |-> 0, s |-> <<>>]
PyNone == [t |-> "null", n |-> 0, e |-> 0, s |-> <<>>]
PyInt(n) == [t |-> "int", n |-> n, e |-> 0, s |-> <<>>]
PyFloat(f) == [t |-> "float", n |-> f.n, e |-> f.e, s |-> <<>>]
PyStr(v) == [t |-> "str", n |-> 0, e |-> 0, s |-> v]

\* a plausible slip: the integer parse falls back to the float parse
CoerceCellIntThenFloat(v) ==
    IF Lower(v) \in {<<"true">>, <<"false">>} THEN PyBool(Lower(v) = <<"true">>)
    ELSE IF Lower(v) = <<"none">> \/ v = <<>> THEN PyNone
    ELSE IF IntOk(v) THEN PyInt(IntValue(v))
    ELSE IF FloatOk(v) THEN PyFloat(FloatValue(v))
    ELSE PyStr(v)

\* the body of the loop over row.items() in _parse_csv, for a cell that is text
CoerceCell(v) ==
    IF Lower(v) \in {<<"true">>, <<"false">>} THEN PyBool(Lower(v) = <<"true">>)
    ELSE IF Lower(v) = <<"none">> \/ v = <<>> THEN PyNone
    ELSE IF HasDot(v)
         THEN IF FloatOk(v) THEN PyFloat(FloatValue(v)) ELSE PyStr(v)
         ELSE IF IntOk(v) THEN PyInt(IntValue(v)) ELSE PyStr(v)

(***************************************************************************)
(* The pure-text CSV parser.  A file is its header row and its data rows,  *)
(* a row is its cells and a blank line is the row with no cell.            *)
(***************************************************************************)
Header == <<"a", "b">>

\* csv.DictReader: a blank line yields no row
DataRows(file) == SelectSeq(file.rows, LAMBDA r : r # <<>>)

\* csv.DictReader: a short row has None (restval) under the missing names, a long
\* row has the list of the extra cells under the key None (restkey); neither has
\* a lower() method
RowIsText(file, r) == Len(r) = Len(file.header)

\* one Record of _parse_csv
ProcessRow(file, r) ==
    [k \in Range(file.header) |->
        CoerceCell(r[CHOOSE i \in DOMAIN file.header : file.header[i] = k])]

\* _parse_csv when pandas is absent
ParseCsvText(file) ==
    IF ~file.exists THEN Raise("FileNotFoundError")
    ELSE LET rows == DataRows(file)
         IN  IF \E i \in DOMAIN rows : ~RowIsText(file, rows[i])
             THEN Raise("AttributeError")
             ELSE Return([i \in DOMAIN rows |-> ProcessRow(file, rows[i])])

(***************************************************************************)
(* The optional libraries, probed at import.                               *)
(***************************************************************************)
Flags == [pandas : BOOLEAN, polars : BOOLEAN, pyarrow : BOOLEAN, msgspec : BOOLEAN]

(***************************************************************************)
(* The objects handed to the normalizer.  An element of a list is a dict   *)
(* (a Record) or something else; id tells two of a kind apart.             *)
(***************************************************************************)
Dict(x) == [t |-> "dict", id |-> x]
NonDict(x) == [t |-> "int", id |-> x]
Elements == {Dict(1), Dict(2), NonDict(7)}
IsRecord(x) == x.t = "dict"

(***************************************************************************)
(* An object is described by what _parse_input asks of it: what it is an   *)
(* instance of (shape), whether it has a __module__ attribute, whether     *)
(* that names polars or pandas, and whether it has a to_dict attribute.    *)
(* items are a list's elements or a dataframe's rows, self is a dict seen  *)
(* as an element, suffix and file are a path's.                            *)
(***************************************************************************)
Shapes == {"str", "Path", "list", "dict", "pandas_df", "polars_df", "other"}
Suffixes == {".csv", ".CSV", ".parquet", ".pq", ".txt", ""}

Attrs == {a \in [hasModule : BOOLEAN, inPolars : BOOLEAN, inPandas : BOOLEAN,
                 hasToDict : BOOLEAN] : (a.inPolars \/ a.inPandas) => a.hasModule}
\* an instance of a built-in type has no __module__ attribute
BuiltinAttrs == [hasModule |-> FALSE, inPolars |-> FALSE, inPandas |-> FALSE,
                 hasToDict |-> FALSE]
\* pandas.core.frame.DataFrame and polars.dataframe.frame.DataFrame
PandasAttrs == [hasModule |-> TRUE, inPolars |-> FALSE, inPandas |-> TRUE,
                hasToDict |-> TRUE]
PolarsAttrs == [hasModule |-> TRUE, inPolars |-> TRUE, inPandas |-> FALSE,
                hasToDict |-> TRUE]

Obj(shape, attrs, self, items, suffix, file) ==
    [shape |-> shape, hasModule |-> attrs.hasModule, inPolars |-> attrs.inPolars,
     inPandas |-> attrs.inPandas, hasToDict |-> attrs.hasToDict,
     self |-> self, items |-> items, suffix |-> suffix, file |-> file]

\* Path.suffix.lower()
LowerSuffix(x) == IF x = ".CSV" THEN ".csv" ELSE x

\* pd.read_csv: a missing file and a row longer than the header are errors, and a
\* blank line is no row; the values of a row are pandas' own inference
PandasReadCsv(file) ==
    IF ~file.exists THEN Raise("FileNotFoundError")
    ELSE LET rows == DataRows(file)
         IN  IF \E i \in DOMAIN rows : Len(rows[i]) > Len(file.header)
             THEN Raise("ParserError")
             ELSE Return([i \in DOMAIN rows |-> [src |-> "pandas", row |-> rows[i]]])

\* _parse_csv
ParseCsv(fl, file) ==
    IF fl.pandas THEN PandasReadCsv(file) ELSE ParseCsvText(file)

\* _parse_parquet: the rows of the file are those of a dataframe
ParseParquet(fl, file) ==
    IF fl.pandas \/ fl.pyarrow
    THEN IF ~file.exists THEN Raise("FileNotFoundError")
         ELSE Return([i \in DOMAIN file.rows |-> [src |-> "parquet", row |-> file.rows[i]]])
    ELSE Raise("ImportError")

\* _parse_pandas, _pandas_to_records: one dict for a row of a dataframe; any
\* other object has no where() of a dataframe
ParsePandas(data) ==
    IF data.shape = "pandas_df"
    THEN Return([i \in DOMAIN data.items |-> Dict(data.items[i])])
    ELSE Raise("AttributeError")

\* _parse_polars: df.to_dicts()
ParsePolars(data) ==
    IF data.shape = "polars_df"
    THEN Return([i \in DOMAIN data.items |-> Dict(data.items[i])])
    ELSE Raise("AttributeError")

Via(branch, out) == [branch |-> branch, out |-> out]
NotNormalized == Via("none", NotRun)

\* the records of a file, as elements
AsDicts(out) ==
    IF out.kind = "return"
    THEN Return([i \in DOMAIN out.value |-> Dict(out.value[i])])
    ELSE out

\* a plausible slip: the pandas test is made before the polars test
ParseInputPandasFirst(fl, data) ==
    IF data.shape \in {"str", "Path"}
    THEN IF LowerSuffix(data.suffix) = ".csv"
         THEN Via("csv", AsDicts(ParseCsv(fl, data.file)))
         ELSE IF LowerSuffix(data.suffix) \in {".parquet", ".pq"}
         THEN Via("parquet", AsDicts(ParseParquet(fl, data.file)))
         ELSE Via("format", Raise("ValueError: Unsupported file format"))
    ELSE IF fl.pandas /\ data.hasModule /\ (data.inPandas \/ data.hasToDict)
    THEN Via("pandas", ParsePandas(data))
    ELSE IF fl.polars /\ data.hasModule /\ data.inPolars
    THEN Via("polars", ParsePolars(data))
    ELSE IF data.shape = "list"
    THEN Via("list", Return(data.items))
    ELSE IF data.shape = "dict"
    THEN Via("dict", Return(<<data.self>>))
    ELSE Via("unsupported", Raise("ValueError: Unsupported data type"))

\* _parse_input
ParseInput(fl, data) ==
    IF data.shape \in {"str", "Path"}
    THEN IF LowerSuffix(data.suffix) = ".csv"
         THEN Via("csv", AsDicts(ParseCsv(fl, data.file)))
         ELSE IF LowerSuffix(data.suffix) \in {".parquet", ".pq"}
         THEN Via("parquet", AsDicts(ParseParquet(fl, data.file)))
         ELSE Via("format", Raise("ValueError: Unsupported file format"))
    ELSE IF fl.polars /\ data.hasModule /\ data.inPolars
    THEN Via("polars", ParsePolars(data))
    ELSE IF fl.pandas /\ data.hasModule /\ (data.inPandas \/ data.hasToDict)
    THEN Via("pandas", ParsePandas(data))
    ELSE IF data.shape = "list"
    THEN Via("list", Return(data.items))
    ELSE IF data.shape = "dict"
    THEN Via("dict", Return(<<data.self>>))
    ELSE Via("unsupported", Raise("ValueError: Unsupported data type"))

(***************************************************************************)
(* The client.  A URL is a sequence of lexemes: the slash, the two         *)
(* segments of the version path and a run of other characters.             *)
(***************************************************************************)
Clients == {"c1", "c2"}
UrlLexemes == {"/", "api", "v1", "h"}
ApiPath == <<"/", "api", "/", "v1">>
\* API_BASE_URL
DefaultUrl == <<"h", "/", "api", "/", "v1">>

\* api_key: None, or a string
NoKey == [some |-> FALSE, s |-> ""]
Key(s) == [some |-> TRUE, s |-> s]
Keys == {NoKey, Key(""), Key("tok")}
\* the truth value of api_key
Truthy(k) == k.some /\ k.s # ""

NoClient == [made |-> FALSE, api_key |-> NoKey, base_url |-> <<>>]

\* str.rstrip('/')
RECURSIVE RStrip(_)
RStrip(u) ==
    IF u # <<>> /\ u[Len(u)] = "/" THEN RStrip(SubSeq(u, 1, Len(u) - 1)) ELSE u

\* str.lstrip('/')
RECURSIVE LStrip(_)
LStrip(u) == IF u # <<>> /\ u[1] = "/" THEN LStrip(Tail(u)) ELSE u

\* str.endswith
EndsWith(u, x) == Len(u) >= Len(x) /\ SubSeq(u, Len(u) - Len(x) + 1, Len(u)) = x

\* a plausible slip: the version path is appended without looking
BaseUrlAlwaysAppended(url) == RStrip(url) \o ApiPath

\* __init__: self.base_url
BaseUrl(url) ==
    IF EndsWith(RStrip(url), ApiPath) THEN RStrip(url) ELSE RStrip(url) \o ApiPath

\* a plausible slip: the header is added whenever a key was given
GetHeadersKeyGiven(cfg) ==
    {<<"Content-Type", <<"application/json">>>>}
        \cup (IF cfg.api_key.some THEN {<<"Authorization", <<"Bearer ", cfg.api_key.s>>>>} ELSE {})

\* _get_headers
GetHeaders(cfg) ==
    {<<"Content-Type", <<"application/json">>>>}
        \cup (IF Truthy(cfg.api_key)
              THEN {<<"Authorization", <<"Bearer ", cfg.api_key.s>>>>}
              ELSE {})

(***************************************************************************)
(* The server's answer to a POST, or the transport's failure.              *)
(***************************************************************************)
ScoreText == "{\"score\": 0.9}"
BodyTexts == {ScoreText, "[]", "server error"}
Response(status, text) == [fail |-> FALSE, status |-> status, text |-> text]
TransportFailure == [fail |-> TRUE, status |-> 0, text |-> ""]
NoResponse == [fail |-> FALSE, status |-> 0, text |-> ""]
Responses ==
    {Response(st, tx) : st \in {200, 201, 500}, tx \in BodyTexts} \cup {TransportFailure}

\* response.json()
Decodable(text) == text \in {ScoreText, "[]"}
Decode(text) == IF text = ScoreText THEN [score |-> PyFloat([n |-> 9, e |-> -1])] ELSE <<>>

RaiseApiError(status, text) ==
    [kind |-> "raise", err |-> [type |-> "API Error", status |-> status, text |-> text],
     value |-> <<>>]

\* what the code after requests.post makes of the response
Outcome(resp) ==
    IF resp.status = 200
    THEN IF Decodable(resp.text) THEN Return(Decode(resp.text)) ELSE Raise("JSONDecodeError")
    ELSE RaiseApiError(resp.status, resp.text)

\* a plausible slip: the endpoint is appended to the base URL as it is
RequestUnjoined(fl, cfg, endpoint, payload) ==
    [url |-> cfg.base_url \o endpoint,
     headers |-> GetHeaders(cfg),
     encoder |-> IF fl.msgspec THEN "msgspec" ELSE "requests",
     payload |-> payload]

Request(fl, cfg, endpoint, payload) ==
    [url |-> cfg.base_url \o <<"/">> \o LStrip(endpoint),
     headers |-> GetHeaders(cfg),
     encoder |-> IF fl.msgspec THEN "msgspec" ELSE "requests",
     payload |-> payload]

\* a plausible slip: a response that is not 200 is posted once more
MakeRequestRetrying(fl, cfg, endpoint, payload, resp) ==
    [out |-> IF resp.fail THEN Raise("ConnectionError") ELSE Outcome(resp),
     sent |-> IF ~resp.fail /\ resp.status # 200
              THEN <<Request(fl, cfg, endpoint, payload), Request(fl, cfg, endpoint, payload)>>
              ELSE <<Request(fl, cfg, endpoint, payload)>>,
     cfg |-> cfg]

\* a plausible slip: every 2xx status is a success
MakeRequestAny2xx(fl, cfg, endpoint, payload, resp) ==
    [out |-> IF resp.fail THEN Raise("ConnectionError")
             ELSE IF resp.status \in 200..299 THEN Outcome(Response(200, resp.text))
             ELSE Outcome(resp),
     sent |-> <<Request(fl, cfg, endpoint, payload)>>,
     cfg |-> cfg]

\* a plausible slip: the joined URL is kept in self.base_url
MakeRequestKeepingUrl(fl, cfg, endpoint, payload, resp) ==
    [out |-> IF resp.fail THEN Raise("ConnectionError") ELSE Outcome(resp),
     sent |-> <<Request(fl, cfg, endpoint, payload)>>,
     cfg |-> [cfg EXCEPT !.base_url = cfg.base_url \o <<"/">> \o LStrip(endpoint)]]

\* _make_request: the outcome, the requests posted and the client's
\* configuration when it ends
MakeRequest(fl, cfg, endpoint, payload, resp) ==
    [out |-> IF resp.fail THEN Raise("ConnectionError") ELSE Outcome(resp),
     sent |-> <<Request(fl, cfg, endpoint, payload)>>,
     cfg |-> cfg]

Cells == SeqsUpTo(Lexemes, MaxCellLen)

CsvFile(rows) == [exists |-> TRUE, header |-> Header, rows |-> rows]
MissingFile == [exists |-> FALSE, header |-> Header, rows |-> <<>>]
NoFile == [exists |-> FALSE, header |-> <<>>, rows |-> <<>>]
NoSelf == [t |-> "none", id |-> 0]
NoObject == Obj("other", BuiltinAttrs, NoSelf, <<>>, "", NoFile)

\* the files paths name: missing, of two full rows, of a full and a short row
SampleFiles ==
    {MissingFile,
     CsvFile(<< <<<<"1">>, <<"x">>>>, <<<<"True">>, <<>>>> >>),
     CsvFile(<< <<<<"1">>, <<"x">>>>, <<<<"2">>>> >>)}

PathObjects ==
    {Obj(sh, BuiltinAttrs, NoSelf, <<>>, sx, f) :
        sh \in {"str", "Path"}, sx \in Suffixes, f \in SampleFiles}
\* list and its subclasses
ListObjects ==
    {Obj("list", a, NoSelf, xs, "", NoFile) :
        a \in Attrs, xs \in SeqsUpTo(Elements, MaxListLen)}
\* dict and its subclasses
DictObjects ==
    {Obj("dict", a, d, <<>>, "", NoFile) : a \in Attrs, d \in {Dict(1), Dict(2)}}
PandasFrames ==
    {Obj("pandas_df", PandasAttrs, NoSelf, rows, "", NoFile) :
        rows \in SeqsUpTo({1, 2}, MaxRows)}
PolarsFrames ==
    {Obj("polars_df", PolarsAttrs, NoSelf, rows, "", NoFile) :
        rows \in SeqsUpTo({1, 2}, MaxRows)}
\* numbers, None, tuples, a pandas Series, an object with a to_dict method, ...
OtherObjects ==
    {Obj("other", a, NonDict(7), <<>>, "", NoFile) : a \in Attrs}

Objects ==
    PathObjects \cup ListObjects \cup DictObjects \cup PandasFrames
        \cup PolarsFrames \cup OtherObjects

\* a dataframe exists only where its library is installed
Exists(fl, data) ==
    /\ data.shape = "pandas_df" => fl.pandas
    /\ data.shape = "polars_df" => fl.polars

RunParseInput ==
    /\ normOut = NotNormalized
    /\ normOut' = ParseInput(flags, normIn)
    /\ UNCHANGED <<flags, csvFile, csvOut, normIn, clients, last>>

RunParseCsv ==
    /\ csvOut = NotRun
    /\ csvOut' = ParseCsv(flags, csvFile)
    /\ UNCHANGED <<flags, csvFile, normIn, normOut, clients, last>>

(***************************************************************************)
(* Calls on a client.  Each is the whole method: normalization, payload,   *)
(* dispatch.                                                               *)
(***************************************************************************)
NoCall ==
    [op |-> "none", client |-> "", args |-> <<>>, norm |-> NotNormalized,
     resp |-> NoResponse, sent |-> <<>>, out |-> NotRun]

\* an optional argument: unset (None), or given
Unset == [some |-> FALSE, v |-> <<>>]
Given(v) == [some |-> TRUE, v |-> v]

\* the objects the public operations are called with: a list of two Records, a
\* single Record, a path of no supported format, a CSV file with a short row
SampleObjects ==
    {Obj("list", BuiltinAttrs, NoSelf, <<Dict(1), Dict(2)>>, "", NoFile),
     Obj("dict", BuiltinAttrs, Dict(1), <<>>, "", NoFile),
     Obj("str", BuiltinAttrs, NoSelf, <<>>, ".txt", MissingFile),
     Obj("Path", BuiltinAttrs, NoSelf, <<>>, ".csv",
         CsvFile(<< <<<<"1">>, <<"x">>>>, <<<<"2">>>> >>))}

SampleUrls == {<<"h", "/">>}
SampleResponses ==
    {Response(200, ScoreText), Response(200, "server error"), Response(201, ScoreText),
     Response(500, "server error"), TransportFailure}
Clock == {5, 6}

\* datetime.isoformat() of the time t, in hours
IsoFormat(t) == [iso |-> TRUE, at |-> t, s |-> ""]
Text(s) == [iso |-> FALSE, at |-> 0, s |-> s]

\* GrandJuryClient(api_key, base_url)
Construct(c, key, url) ==
    /\ ~clients[c].made
    /\ clients' = [clients EXCEPT ![c] =
                      [made |-> TRUE, api_key |-> key, base_url |-> BaseUrl(url)]]
    /\ last' = [NoCall EXCEPT !.op = "__init__", !.client = c,
                              !.args = [api_key |-> key, base_url |-> url]]
    /\ UNCHANGED <<flags, csvFile, csvOut, normIn, normOut>>

\* the end of a public operation: the normalizer's error reaches the caller, or
\* the payload is dispatched and the server answers
Finish(op, c, args, norm, endpoint, payload) ==
    /\ IF norm.out.kind = "raise"
       THEN /\ last' = [op |-> op, client |-> c, args |-> args, norm |-> norm,
                        resp |-> NoResponse, sent |-> <<>>, out |-> norm.out]
            /\ clients' = clients
       ELSE \E resp \in SampleResponses :
               LET d == MakeRequest(flags, clients[c], endpoint, payload, resp)
               IN  /\ last' = [op |-> op, client |-> c, args |-> args, norm |-> norm,
                               resp |-> resp, sent |-> d.sent, out |-> d.out]
                   /\ clients' = [clients EXCEPT ![c] = d.cfg]
    /\ UNCHANGED <<flags, csvFile, csvOut, normIn, normOut>>

\* client._parse_input(data)
CallParseInput(c) ==
    /\ clients[c].made
    /\ \E data \in SampleObjects :
        /\ last' = [NoCall EXCEPT !.op = "_parse_input", !.client = c,
                                  !.args = [data |-> data],
                                  !.norm = ParseInput(flags, data),
                                  !.out = ParseInput(flags, data).out]
        /\ UNCHANGED <<flags, csvFile, csvOut, normIn, normOut, clients>>

\* client._make_request(endpoint, payload)
CallMakeRequest(c) ==
    /\ clients[c].made
    /\ \E endpoint \in {<<"evaluate">>, <<"/", "/", "evaluate">>} :
        /\ Finish("_make_request", c, [endpoint |-> endpoint], NotNormalized,
                  endpoint, <<>>)

\* the arguments evaluate_model is called with, and the time of the call
EvaluateArgs ==
    {[previous_score |-> 0, previous_timestamp |-> ts, votes |-> v, reputations |-> r,
      now |-> now] :
        ts \in {Unset, Given(Text("t0"))}, v \in {Unset, Given(<<1>>)},
        r \in {Unset, Given(<<1>>)}, now \in Clock}
SampleEvaluateArgs ==
    {a \in EvaluateArgs :
        \/ ~a.previous_timestamp.some /\ ~a.votes.some /\ ~a.reputations.some
        \/ a.now = 5 /\ (a.votes.some <=> a.previous_timestamp.some)}

\* a plausible slip: an argument is tested for its truth value, not for None
EvaluatePayloadFalsy(a) ==
    [previous_score |-> a.previous_score,
     previous_timestamp |-> IF a.previous_timestamp.some /\ a.previous_timestamp.v.s # ""
                            THEN a.previous_timestamp.v
                            ELSE IsoFormat(a.now - 1),
     votes |-> IF a.votes.some THEN a.votes.v ELSE <<>>,
     reputations |-> IF a.reputations.some THEN a.reputations.v ELSE <<>>]

\* the payload of evaluate_model
EvaluatePayload(a) ==
    [previous_score |-> a.previous_score,
     previous_timestamp |-> IF a.previous_timestamp.some
                            THEN a.previous_timestamp.v
                            ELSE IsoFormat(a.now - 1),
     votes |-> IF a.votes.some THEN a.votes.v ELSE <<>>,
     reputations |-> IF a.reputations.some THEN a.reputations.v ELSE <<>>]

\* client.evaluate_model(previous_score, previous_timestamp, votes, reputations)
EvaluateModel(c) ==
    /\ clients[c].made
    /\ \E a \in SampleEvaluateArgs :
        Finish("evaluate_model", c, a, NotNormalized, <<"evaluate">>, EvaluatePayload(a))

\* evaluate_model called once with any mix of given and unset arguments
WideEvaluateArgs ==
    {[previous_score |-> sc, previous_timestamp |-> ts, votes |-> v, reputations |-> r,
      now |-> now] :
        sc \in {0, 1}, ts \in {Unset, Given(Text("")), Given(Text("t0"))},
        v \in {Unset, Given(<<>>), Given(<<1>>)},
        r \in {Unset, Given(<<>>), Given(<<1>>)}, now \in Clock}

EvaluateModelOnce(c) ==
    /\ last = NoCall
    /\ clients[c].made
    /\ \E a \in WideEvaluateArgs :
        Finish("evaluate_model", c, a, NotNormalized, <<"evaluate">>, EvaluatePayload(a))

\* client.vote_histogram(data, duration_minutes, gross)
VoteHistogram(c) ==
    /\ clients[c].made
    /\ \E data \in SampleObjects, gross \in {TRUE} :
        /\ LET norm == ParseInput(flags, data)
           IN  Finish("vote_histogram", c, [data |-> data, gross |-> gross], norm,
                      <<"verdict", "/", "histogram">>,
                      [data |-> norm.out.value, duration_minutes |-> 60, gross |-> gross])

\* client.vote_completeness(data, voter_list, inference_ids, gross)
VoteCompleteness(c) ==
    /\ clients[c].made
    /\ \E data \in SampleObjects, ids \in {Unset, Given(<<1>>)} :
        /\ LET norm == ParseInput(flags, data)
               base == [data |-> norm.out.value, voter_list |-> <<1, 2>>, gross |-> FALSE]
           IN  Finish("vote_completeness", c, [data |-> data, inference_ids |-> ids], norm,
                      <<"verdict", "/", "completeness">>,
                      IF ids.some
                      THEN [data |-> base.data, voter_list |-> base.voter_list,
                            gross |-> base.gross, inference_ids |-> ids.v]
                      ELSE base)

\* client.population_confidence(data, voter_list, inference_ids)
PopulationConfidence(c) ==
    /\ clients[c].made
    /\ \E data \in SampleObjects, ids \in {Unset, Given(<<1>>)} :
        /\ LET norm == ParseInput(flags, data)
               base == [data |-> norm.out.value, voter_list |-> <<1, 2>>]
           IN  Finish("population_confidence", c, [data |-> data, inference_ids |-> ids],
                      norm, <<"verdict", "/", "population-confidence">>,
                      IF ids.some
                      THEN [data |-> base.data, voter_list |-> base.voter_list,
                            inference_ids |-> ids.v]
                      ELSE base)

\* client.majority_good_votes(data, good_vote, threshold)
MajorityGoodVotes(c) ==
    /\ clients[c].made
    /\ \E data \in SampleObjects :
        /\ LET norm == ParseInput(flags, data)
           IN  Finish("majority_good_votes", c, [data |-> data], norm,
                      <<"verdict", "/", "majority-good">>,
                      [data |-> norm.out.value, good_vote |-> TRUE,
                       threshold |-> PyFloat([n |-> 5, e |-> -1])])

\* client.votes_distribution(data, inference_ids)
VotesDistribution(c) ==
    /\ clients[c].made
    /\ \E data \in SampleObjects, ids \in {Unset, Given(<<1>>)} :
        /\ LET norm == ParseInput(flags, data)
           IN  Finish("votes_distribution", c, [data |-> data, inference_ids |-> ids], norm,
                      <<"verdict", "/", "votes-distribution">>,
                      IF ids.some
                      THEN [data |-> norm.out.value, inference_ids |-> ids.v]
                      ELSE [data |-> norm.out.value])

(***************************************************************************)
(* The free function evaluate_model(predictions, references, api_key).     *)
(* An argument is a list or not (a tuple, say); 1 and 0 stand for 1.0 and *)
(* 0.0.                                                                    *)
(***************************************************************************)
Labels == {"a", "b"}
ListArg(items) == [isList |-> TRUE, items |-> items]
TupleArg(items) == [isList |-> FALSE, items |-> items]
LegacyArgs == {ListArg(xs) : xs \in SeqsUpTo(Labels, MaxListLen)} \cup {TupleArg(<<"a", "b">>)}

Min(m, n) == IF m <= n THEN m ELSE n

\* zip(predictions, references) and the comparison of each pair
AgreementVotes(p, r) ==
    [i \in 1..Min(Len(p), Len(r)) |-> IF p[i] = r[i] THEN 1 ELSE 0]

\* the arguments the free function passes to client.evaluate_model
LegacyCallArgs(preds, refs, now) ==
    IF preds.isList /\ refs.isList
    THEN [previous_score |-> 0, previous_timestamp |-> Unset,
          votes |-> Given(AgreementVotes(preds.items, refs.items)),
          reputations |-> Given([i \in DOMAIN AgreementVotes(preds.items, refs.items) |-> 1]),
          now |-> now]
    ELSE [previous_score |-> 0, previous_timestamp |-> Unset,
          votes |-> Given(preds.items), reputations |-> Given(refs.items), now |-> now]

\* the client the free function makes: GrandJuryClient(api_key=api_key)
LegacyClient(key) == [made |-> TRUE, api_key |-> key, base_url |-> BaseUrl(DefaultUrl)]

\* a plausible slip: one reputation for every prediction, not for every vote
LegacyEvaluatePerPrediction(fl, key, preds, refs, now, resp) ==
    LET a == LegacyCallArgs(preds, refs, now)
        b == IF preds.isList /\ refs.isList
             THEN [a EXCEPT !.reputations = Given([i \in DOMAIN preds.items |-> 1])]
             ELSE a
        d == MakeRequest(fl, LegacyClient(key), <<"evaluate">>, EvaluatePayload(b), resp)
    IN  [calls |-> <<[args |-> b, out |-> d.out]>>, sent |-> d.sent, out |-> d.out]

\* evaluate_model(predictions, references, api_key): the calls of
\* client.evaluate_model it makes, the requests they post and its own outcome
LegacyEvaluate(fl, key, preds, refs, now, resp) ==
    LET a == LegacyCallArgs(preds, refs, now)
        d == MakeRequest(fl, LegacyClient(key), <<"evaluate">>, EvaluatePayload(a), resp)
    IN  [calls |-> <<[args |-> a, out |-> d.out]>>, sent |-> d.sent, out |-> d.out]

LegacyEvaluateModel ==
    /\ last = NoCall
    /\ \E key \in Keys, preds \in LegacyArgs, refs \in LegacyArgs, now \in Clock,
          resp \in SampleResponses :
        LET e == LegacyEvaluate(flags, key, preds, refs, now, resp)
        IN  last' = [op |-> "evaluate_model()", client |-> "",
                     args |-> [predictions |-> preds, references |-> refs,
                               api_key |-> key, calls |-> e.calls],
                     norm |-> NotNormalized, resp |-> resp, sent |-> e.sent,
                     out |-> e.out]
    /\ UNCHANGED <<flags, csvFile, csvOut, normIn, normOut, clients>>

PublicOps ==
    {"evaluate_model", "vote_histogram", "vote_completeness", "population_confidence",
     "majority_good_votes", "votes_distribution"}

(***************************************************************************)
(* Spec: two clients, constructed and then called in any order.            *)
(***************************************************************************)
FlagSamples ==
    {[pandas |-> b, polars |-> b, pyarrow |-> b, msgspec |-> b] : b \in BOOLEAN}

Init ==
    /\ flags \in FlagSamples
    /\ clients = [c \in Clients |-> NoClient]
    /\ last = NoCall
    /\ csvFile = NoFile
    /\ csvOut = NotRun
    /\ normIn = NoObject
    /\ normOut = NotNormalized

Next ==
    \E c \in Clients :
        \/ ~clients[c].made /\ \E key \in Keys, url \in SampleUrls : Construct(c, key, url)
        \/ CallParseInput(c)
        \/ CallMakeRequest(c)
        \/ EvaluateModel(c)
        \/ VoteHistogram(c)
        \/ VoteCompleteness(c)
        \/ PopulationConfidence(c)
        \/ MajorityGoodVotes(c)
        \/ VotesDistribution(c)

Spec == Init /\ [][Next]_vars

(***************************************************************************)
(* SpecUrl: one client constructed with every URL of the bound.            *)
(***************************************************************************)
Urls == SeqsUpTo(UrlLexemes, MaxUrlLen)

NextUrl == ~clients["c1"].made /\ \E key \in Keys, url \in Urls : Construct("c1", key, url)

SpecUrl == Init /\ [][NextUrl]_vars

(***************************************************************************)
(* SpecLegacy: one call of the free function evaluate_model.               *)
(***************************************************************************)
NextLegacy == LegacyEvaluateModel

SpecLegacy == Init /\ [][NextLegacy]_vars

\* C11: given two lists, the free function calls client.evaluate_model exactly
\* once, with one vote for each pair of the two lists (as many as the shorter
\* list has), 1.0 where the pair is equal and 0.0 where it is not, and with the
\* reputation 1.0 for each vote; the request carries these, and the outcome of
\* that call is the function's own.
C11_LegacyVotesAndReputations ==
    (last.op = "evaluate_model()" /\ last.args.predictions.isList
        /\ last.args.references.isList) =>
        LET p == last.args.predictions.items
            r == last.args.references.items
            n == IF Len(p) <= Len(r) THEN Len(p) ELSE Len(r)
        IN  /\ Len(last.args.calls) = 1
            /\ Len(last.sent) = 1
            /\ LET call == last.args.calls[1]
                   payload == last.sent[1].payload
               IN  /\ call.args.votes.some /\ call.args.reputations.some
                   /\ Len(call.args.votes.v) = n
                   /\ Len(call.args.reputations.v) = n
                   /\ \A i \in 1..n :
                        /\ p[i] = r[i] => call.args.votes.v[i] = 1
                        /\ p[i] # r[i] => call.args.votes.v[i] = 0
                        /\ call.args.reputations.v[i] = 1
                   /\ payload.votes = call.args.votes.v
                   /\ payload.reputations = call.args.reputations.v
                   /\ last.out = call.out

\* the free function was called with two predictions and one reference
C11_ListsOfDifferentLength ==
    /\ last.op = "evaluate_model()"
    /\ last.args.predictions = ListArg(<<"a", "b">>)
    /\ last.args.references = ListArg(<<"a">>)
    /\ last.sent[1].payload.votes = <<1>>
    /\ last.sent[1].payload.reputations = <<1>>

(***************************************************************************)
(* SpecEval: one call of evaluate_model on one of two constructed clients. *)
(***************************************************************************)
InitEval ==
    /\ flags \in FlagSamples
    /\ clients \in [Clients -> {LegacyClient(k) : k \in Keys}]
    /\ last = NoCall
    /\ csvFile = NoFile
    /\ csvOut = NotRun
    /\ normIn = NoObject
    /\ normOut = NotNormalized

NextEval == \E c \in Clients : EvaluateModelOnce(c)

SpecEval == InitEval /\ [][NextEval]_vars

\* C13: evaluate_model posts a payload of exactly the keys previous_score,
\* previous_timestamp, votes and reputations; an argument the caller gave, an
\* empty sequence or an empty timestamp included, is in the payload as given;
\* an unset previous_timestamp is the time one hour before the call, and
\* unset votes or reputations are the empty sequence.
C13_OnlyUnsetArgumentsDefaulted ==
    last.op = "evaluate_model" =>
        /\ Len(last.sent) = 1
        /\ LET a == last.args
               p == last.sent[1].payload
           IN  /\ DOMAIN p = {"previous_score", "previous_timestamp", "votes", "reputations"}
               /\ p.previous_score = a.previous_score
               /\ p.previous_timestamp = IF a.previous_timestamp.some
                                         THEN a.previous_timestamp.v
                                         ELSE [iso |-> TRUE, at |-> a.now - 1, s |-> ""]
               /\ p.votes = IF a.votes.some THEN a.votes.v ELSE <<>>
               /\ p.reputations = IF a.reputations.some THEN a.reputations.v ELSE <<>>

\* an empty timestamp and an empty votes list were given, reputations were not
C13_EmptyArgumentsGiven ==
    /\ last.op = "evaluate_model"
    /\ last.args.previous_timestamp = Given(Text(""))
    /\ last.args.votes = Given(<<>>)
    /\ ~last.args.reputations.some
    /\ Len(last.sent) = 1
    /\ last.sent[1].payload.previous_timestamp = Text("")
    /\ last.sent[1].payload.reputations = <<>>

(***************************************************************************)
(* SpecCell: _parse_csv on every file of one row of one cell.              *)
(***************************************************************************)
InitCell ==
    /\ csvFile \in {[exists |-> TRUE, header |-> <<"a">>, rows |-> << <<v>> >>] : v \in Cells}
    /\ csvOut = NotRun
    /\ flags \in {f \in Flags : ~f.pandas}
    /\ normIn = NoObject
    /\ normOut = NotNormalized
    /\ clients = [c \in Clients |-> NoClient]
    /\ last = NoCall

NextCell == RunParseCsv

SpecCell == InitCell /\ [][NextCell]_vars

\* the cell of a one-row, one-cell file and the value _parse_csv gave it
TheCell == csvFile.rows[1][1]
TheValue == csvOut.value[1]["a"]

IsBoolText(v) == Lower(v) \in {<<"true">>, <<"false">>}
IsNullText(v) == Lower(v) = <<"none">> \/ v = <<>>

\* C3 as stated: each cell is coerced in the priority order boolean, null,
\* integer, float, text, and a cell that is no integer is tried as a float
\* whether or not it holds a decimal point (1e1 becomes a float).
C3_IntThenFloatThenText ==
    csvOut.kind = "return" =>
        LET v == TheCell
        IN  /\ IsBoolText(v) => TheValue = PyBool(Lower(v) = <<"true">>)
            /\ ~IsBoolText(v) /\ IsNullText(v) => TheValue = PyNone
            /\ ~IsBoolText(v) /\ ~IsNullText(v) /\ IntOk(v) => TheValue = PyInt(IntValue(v))
            /\ ~IsBoolText(v) /\ ~IsNullText(v) /\ ~IntOk(v) /\ FloatOk(v)
                  => TheValue = PyFloat(FloatValue(v))
            /\ ~IsBoolText(v) /\ ~IsNullText(v) /\ ~IntOk(v) /\ ~FloatOk(v)
                  => TheValue = PyStr(v)

\* C3 as amended: boolean, then null, as stated; then a cell holding a decimal
\* point is a float when it parses as one, a cell holding none is an integer when
\* it parses as one, and every other cell, a float literal without a decimal point
\* among them, is kept as text.
C3_DotDecidesTheParse ==
    csvOut.kind = "return" =>
        LET v == TheCell
            plain == ~IsBoolText(v) /\ ~IsNullText(v)
        IN  /\ IsBoolText(v) => TheValue = PyBool(Lower(v) = <<"true">>)
            /\ ~IsBoolText(v) /\ IsNullText(v) => TheValue = PyNone
            /\ plain /\ ~HasDot(v) /\ IntOk(v) => TheValue = PyInt(IntValue(v))
            /\ plain /\ HasDot(v) /\ FloatOk(v) => TheValue = PyFloat(FloatValue(v))
            /\ plain /\ ~(HasDot(v) /\ FloatOk(v)) /\ ~(~HasDot(v) /\ IntOk(v))
                  => TheValue = PyStr(v)

\* the cell 1e1 has been parsed and kept as text
C3_ExponentCellParsed ==
    /\ csvOut.kind = "return"
    /\ TheCell = <<"1", "e", "1">>
    /\ TheValue = PyStr(<<"1", "e", "1">>)

(***************************************************************************)
(* SpecCsv: _parse_csv on files of a two-column header whose rows are      *)
(* blank, short, full or long.                                             *)
(***************************************************************************)
SampleCells == {<<"1">>, <<"x">>, <<>>}
SampleRows == SeqsUpTo(SampleCells, Len(Header) + 1)
InitCsv ==
    /\ csvFile \in {CsvFile(rows) : rows \in SeqsUpTo(SampleRows, MaxRows)} \cup {MissingFile}
    /\ csvOut = NotRun
    /\ flags \in {f \in Flags : ~f.pandas}
    /\ normIn = NoObject
    /\ normOut = NotNormalized
    /\ clients = [c \in Clients |-> NoClient]
    /\ last = NoCall

NextCsv == RunParseCsv

SpecCsv == InitCsv /\ [][NextCsv]_vars

\* C4: on a readable file with a header _parse_csv returns, with one Record for
\* every line that is not blank, in file order, whatever the number of cells of a
\* row, and with text for a cell that cannot be coerced.
C4_NoRowFailsTheBatch ==
    csvOut # NotRun /\ csvFile.exists =>
        /\ csvOut.kind = "return"
        /\ Len(csvOut.value) = Len(DataRows(csvFile))
        /\ \A i \in DOMAIN csvOut.value :
             \A j \in DOMAIN Header :
                j <= Len(DataRows(csvFile)[i]) =>
                    csvOut.value[i][Header[j]] = CoerceCell(DataRows(csvFile)[i][j])

(***************************************************************************)
(* SpecNorm: _parse_input on every object, under every combination of the  *)
(* library flags in which the object can exist.                            *)
(***************************************************************************)
InitNorm ==
    /\ flags \in Flags
    /\ normIn \in {o \in Objects : Exists(flags, o)}
    /\ normOut = NotNormalized
    /\ csvFile = NoFile
    /\ csvOut = NotRun
    /\ clients = [c \in Clients |-> NoClient]
    /\ last = NoCall

NextNorm == RunParseInput

SpecNorm == InitNorm /\ [][NextNorm]_vars

\* C1: whenever _parse_input returns, it returns a list of Records: no element of
\* the result is anything but a mapping.
C1_ResultIsListOfRecords ==
    normOut.out.kind = "return" =>
        \A i \in DOMAIN normOut.out.value : IsRecord(normOut.out.value[i])

\* C2: under every combination of the library flags, a list of mappings is
\* returned as it is and a single mapping m is returned as the list [m].
C2_IdentityAndSingletonWrap ==
    normOut # NotNormalized =>
        /\ (normIn.shape = "list" /\ \A i \in DOMAIN normIn.items : IsRecord(normIn.items[i]))
              => normOut.out = Return(normIn.items)
        /\ normIn.shape = "dict" => normOut.out = Return(<<normIn.self>>)

\* C10: an object that is no path, no dataframe, no list and no mapping makes
\* _parse_input raise the unsupported-type error, under every combination of the
\* library flags, and reaches no dataframe converter.
C10_OtherObjectsAreUnsupported ==
    normOut # NotNormalized /\ normIn.shape = "other" =>
        /\ normOut.branch = "unsupported"
        /\ normOut.out = Raise("ValueError: Unsupported data type")

\* the tests of _parse_input, on the object it was given
IsPath == normIn.shape \in {"str", "Path"}
LooksPolars == flags.polars /\ normIn.hasModule /\ normIn.inPolars
LooksPandas == flags.pandas /\ normIn.hasModule /\ (normIn.inPandas \/ normIn.hasToDict)

\* C14: _parse_input takes the first branch, in the order path, polars, pandas,
\* list, mapping, error, whose test the object passes, and no other; so a
\* polars DataFrame is converted by the polars converter and a pandas DataFrame
\* by the pandas converter, also where both libraries are installed.
C14_FixedPrecedence ==
    normOut # NotNormalized =>
        /\ normOut.branch \in {"csv", "parquet", "format"} <=> IsPath
        /\ normOut.branch = "polars" <=> (~IsPath /\ LooksPolars)
        /\ normOut.branch = "pandas" <=> (~IsPath /\ ~LooksPolars /\ LooksPandas)
        /\ normOut.branch = "list" <=>
              (~IsPath /\ ~LooksPolars /\ ~LooksPandas /\ normIn.shape = "list")
        /\ normOut.branch = "dict" <=>
              (~IsPath /\ ~LooksPolars /\ ~LooksPandas /\ normIn.shape = "dict")
        /\ normOut.branch = "unsupported" <=>
              (~IsPath /\ ~LooksPolars /\ ~LooksPandas /\ normIn.shape \notin {"list", "dict"})
        /\ normIn.shape = "polars_df" =>
              /\ normOut.branch = "polars"
              /\ normOut.out = Return([i \in DOMAIN normIn.items |-> Dict(normIn.items[i])])
        /\ normIn.shape = "pandas_df" =>
              /\ normOut.branch = "pandas"
              /\ normOut.out = Return([i \in DOMAIN normIn.items |-> Dict(normIn.items[i])])

\* with both libraries installed, a polars DataFrame of two rows was converted
C14_PolarsFrameBesidePandas ==
    /\ flags.pandas /\ flags.polars
    /\ normIn.shape = "polars_df"
    /\ Len(normIn.items) = 2
    /\ normOut.branch = "polars"
    /\ normOut.out.kind = "return"

(***************************************************************************)
(* The dispatcher and the client's configuration.                          *)
(***************************************************************************)
\* the latest call posted a request and the server answered it
Answered == last.sent # <<>> /\ ~last.resp.fail

HeaderNames(req) == {h[1] : h \in req.headers}

\* C7 as stated: every request has the JSON content type, has the bearer header
\* for every token the client was constructed with, the empty string among them,
\* and has no Authorization header when no token was given.
C7_BearerForEveryToken ==
    \A i \in DOMAIN last.sent :
        LET key == clients[last.client].api_key
        IN  /\ <<"Content-Type", <<"application/json">>>> \in last.sent[i].headers
            /\ key.some => <<"Authorization", <<"Bearer ", key.s>>>> \in last.sent[i].headers
            /\ ~key.some => "Authorization" \notin HeaderNames(last.sent[i])

\* C7 as amended: every request has the JSON content type, has the bearer header
\* when the client was constructed with a token that is not empty, and has no
\* Authorization header when it was constructed with no token or the empty one.
C7_BearerForNonEmptyToken ==
    \A i \in DOMAIN last.sent :
        LET key == clients[last.client].api_key
        IN  /\ <<"Content-Type", <<"application/json">>>> \in last.sent[i].headers
            /\ (key.some /\ key.s # "")
                  => <<"Authorization", <<"Bearer ", key.s>>>> \in last.sent[i].headers
            /\ (~key.some \/ key.s = "")
                  => "Authorization" \notin HeaderNames(last.sent[i])

\* a client constructed with the empty token has posted a request
C7_EmptyTokenPosted ==
    /\ last.sent # <<>>
    /\ clients[last.client].api_key = Key("")
    /\ "Authorization" \notin HeaderNames(last.sent[1])

IsSlashes(u) == \A i \in DOMAIN u : u[i] = "/"

\* C8: after construction base_url ends with /api/v1 and with no slash, and it is
\* the given URL without its trailing slashes when that ends with /api/v1, and
\* that with /api/v1 appended once otherwise.
C8_BaseUrlEndsWithVersionPath ==
    last.op = "__init__" =>
        LET url == last.args.base_url
            base == clients[last.client].base_url
        IN  /\ EndsWith(base, ApiPath)
            /\ base[Len(base)] # "/"
            /\ \E k \in 0..Len(url) :
                  LET stem == SubSeq(url, 1, k)
                  IN  /\ IsSlashes(SubSeq(url, k + 1, Len(url)))
                      /\ stem = <<>> \/ stem[Len(stem)] # "/"
                      /\ EndsWith(stem, ApiPath) => base = stem
                      /\ ~EndsWith(stem, ApiPath) => base = stem \o ApiPath

\* a client was constructed with a URL ending in /api/v1/
C8_VersionPathGiven ==
    /\ last.op = "__init__"
    /\ last.args.base_url = <<"h", "/", "api", "/", "v1", "/">>
    /\ clients[last.client].base_url = <<"h", "/", "api", "/", "v1">>

\* C9: no call changes the configuration of a constructed client, neither of the
\* client it is made on nor of another.
C9_ConfigurationIsImmutable ==
    [][\A c \in Clients : clients[c].made => clients'[c] = clients[c]]_vars

\* both clients are constructed, with different keys, and a call on c1 was
\* answered with an error
C9_CalledBesideAnotherClient ==
    /\ clients["c1"].made
    /\ clients["c2"].made
    /\ clients["c1"].api_key # clients["c2"].api_key
    /\ last.client = "c1"
    /\ Answered
    /\ last.out.kind = "raise"

\* the endpoint of each public operation
EndpointOf(op) ==
    CASE op = "evaluate_model" -> <<"evaluate">>
      [] op = "vote_histogram" -> <<"verdict", "/", "histogram">>
      [] op = "vote_completeness" -> <<"verdict", "/", "completeness">>
      [] op = "population_confidence" -> <<"verdict", "/", "population-confidence">>
      [] op = "majority_good_votes" -> <<"verdict", "/", "majority-good">>
      [] op = "votes_distribution" -> <<"verdict", "/", "votes-distribution">>

\* C12: the request of a public operation goes to the operation's own
\* endpoint, at the client's base URL and the endpoint joined by exactly one
\* slash; for every operation but evaluate_model the payload's data is exactly
\* what _parse_input returned for the data argument.
C12_FixedEndpointAndNormalizedData ==
    (last.op \in PublicOps /\ last.sent # <<>>) =>
        LET base == clients[last.client].base_url
            req == last.sent[1]
        IN  /\ Len(last.sent) = 1
            /\ req.url = base \o <<"/">> \o EndpointOf(last.op)
            /\ base # <<>> => base[Len(base)] # "/"
            /\ EndpointOf(last.op)[1] # "/"
            /\ last.op # "evaluate_model" =>
                /\ last.norm = ParseInput(flags, last.args.data)
                /\ last.norm.out.kind = "return"
                /\ req.payload.data = last.norm.out.value

\* votes_distribution posted the one record it was given, wrapped in a list
C12_SingleRecordPosted ==
    /\ last.op = "votes_distribution"
    /\ last.norm.branch = "dict"
    /\ Len(last.sent) = 1
    /\ last.sent[1].payload.data = <<last.args.data.self>>
    /\ last.sent[1].url = <<"h", "/", "api", "/", "v1", "/", "verdict", "/", "votes-distribution">>

=============================================================================
